---- MODULE Spec2Model ----
(***************************************************************************)
(* fusionn-font: the ASS subtitle parser (fusionn_font/ass_parser.py) and  *)
(* the embedded-font writer (fusionn_font/ass_writer.py).                  *)
(*                                                                         *)
(* Parser texts are sequences of one-character strings.  Offsets into a    *)
(* text are Python's: 0-based, a slice s[a:b] holds the characters         *)
(* a+1 .. b of the 1-based TLA+ sequence.                                  *)
(***************************************************************************)
EXTENDS Integers, Sequences, FiniteSets, TLC

VARIABLES
    pc,            \* position of the running operation
    file,          \* parse(): the subtitle file as written on disk, a sequence of records
    eol,           \* parse(): the line terminator the file was written with
    content,       \* parse(): the text read_text returned
    styles,        \* ASSParser.styles: style name -> font name
    font_usage,    \* ASSParser.font_usage: font name -> set of characters
    todo,          \* _parse_dialogues: the dialogue matches still to process
    done_lines,    \* _parse_dialogues: how many dialogue matches were processed
    text,          \* _process_dialogue_text: the text of the last call
    base_font,     \* _process_dialogue_text: the base font of the last call
    usage_before,  \* font_usage as it was when the last call started
    runs,          \* the _add_chars_to_font calls of the last call: [font, lo, hi]
    ass_file,      \* embed_fonts_in_ass: the subtitle file on disk, as character codes
    prev_file,     \* the file as it was before the last embed_fonts_in_ass
    fonts,         \* the fonts of the last embed_fonts_in_ass: a sequence of [name, data]
    prev_fonts,    \* the fonts of the embed_fonts_in_ass before the last
    host,          \* embed_fonts_in_ass: content at the moment the section is appended
    data,          \* ass_uuencode: the bytes to encode
    encoded,       \* ass_uuencode: the text it returned, as character codes
    estimate       \* get_embedded_fonts_info: estimated_size of that text

embedVars == <<ass_file, prev_file, fonts, prev_fonts, host>>

encodeVars == <<data, encoded, estimate>>

vars == <<pc, file, eol, content, styles, font_usage, todo, done_lines,
          text, base_font, usage_before, runs, embedVars, encodeVars>>

\* The writer's variables while a parser runs.
EmbedIdle ==
    /\ ass_file = <<>>
    /\ prev_file = <<>>
    /\ fonts = <<>>
    /\ prev_fonts = <<>>
    /\ host = <<>>

\* The encoder's variables while another operation runs.
EncodeIdle ==
    /\ data = <<>>
    /\ encoded = <<>>
    /\ estimate = 0

(***************************************************************************)
(* Bounds of the model.                                                    *)
(***************************************************************************)
MaxSegs == 4

(***************************************************************************)
(* Sequence helpers.                                                       *)
(***************************************************************************)
Min(a, b) == IF a < b THEN a ELSE b

Range(s) == {s[i] : i \in DOMAIN s}

\* Python's s[a:b] for 0 <= a, 0 <= b.
Slice(s, a, b) == SubSeq(s, a + 1, Min(b, Len(s)))

StartsAt(s, i, pat) ==
    /\ i >= 1
    /\ i + Len(pat) - 1 <= Len(s)
    /\ \A k \in 1..Len(pat) : s[i + k - 1] = pat[k]

\* The least 1-based index >= from at which pat occurs in s; 0 when there is none.
Find(s, pat, from) ==
    LET hits == {i \in from..Len(s) : StartsAt(s, i, pat)}
    IN  IF hits = {} THEN 0 ELSE CHOOSE i \in hits : \A j \in hits : i <= j

RECURSIVE Flatten(_)
Flatten(ss) == IF ss = <<>> THEN <<>> ELSE Head(ss) \o Flatten(Tail(ss))

\* str.replace(old, new): leftmost, non-overlapping, one pass.
RECURSIVE Replace(_, _, _)
Replace(s, old, new) ==
    LET i == Find(s, old, 1)
    IN  IF i = 0 THEN s
        ELSE SubSeq(s, 1, i - 1) \o new \o Replace(SubSeq(s, i + Len(old), Len(s)), old, new)

(***************************************************************************)
(* Characters.                                                             *)
(***************************************************************************)
BS == "\\"

\* The characters of the model's alphabet for which str.isprintable() is false.
NonPrintable == {"\t", "\n", "\r", "\f"}

IsPrintable(c) == c \notin NonPrintable

\* The characters of the model's alphabet that str.strip() and \s take as whitespace.
Whitespace == {" ", "\t", "\n", "\r", "\f"}

RECURSIVE LStrip(_)
LStrip(s) == IF s # <<>> /\ Head(s) \in Whitespace THEN LStrip(Tail(s)) ELSE s

RECURSIVE RStrip(_)
RStrip(s) ==
    IF s # <<>> /\ s[Len(s)] \in Whitespace THEN RStrip(SubSeq(s, 1, Len(s) - 1)) ELSE s

Strip(s) == RStrip(LStrip(s))

\* No font: Python's None, which `if current_font` treats like the empty name.
NoFont == <<>>

(***************************************************************************)
(* ASSParser's patterns.                                                   *)
(***************************************************************************)
\* TAG_PATTERN.finditer(text): the matches of \{[^}]*\} from offset `from` on,
\* each with Python's start() and end().
RECURSIVE TagMatchesFrom(_, _)
TagMatchesFrom(t, from) ==
    LET o == Find(t, <<"{">>, from)
        c == IF o = 0 THEN 0 ELSE Find(t, <<"}">>, o + 1)
    IN  IF o = 0 \/ c = 0 THEN <<>>
        ELSE <<[start |-> o - 1, end |-> c]>> \o TagMatchesFrom(t, c + 1)

TagMatches(t) == TagMatchesFrom(t, 1)

\* DRAWING_START.search(tag_content): \\p[1-9]
DrawingStart(tag_content) ==
    \E i \in 1..Len(tag_content) :
        \E d \in {"1", "2", "3", "4", "5", "6", "7", "8", "9"} :
            StartsAt(tag_content, i, <<BS, "p", d>>)

\* DRAWING_END.search(remaining).end() for \\p0; 0 when there is no match.
DrawingEnd(remaining) ==
    LET i == Find(remaining, <<BS, "p", "0">>, 1)
    IN  IF i = 0 THEN 0 ELSE i + 2

\* The longest prefix of s with no backslash and no closing brace: [^\\}]*
RECURSIVE NameRun(_)
NameRun(s) ==
    IF s = <<>> \/ Head(s) \in {BS, "}"} THEN <<>> ELSE <<Head(s)>> \o NameRun(Tail(s))

\* The 1-based indices at which \\fn([^\\}]+) matches in tag_content.
OverrideHits(tag_content) ==
    {i \in 1..Len(tag_content) :
        /\ StartsAt(tag_content, i, <<BS, "f", "n">>)
        /\ NameRun(SubSeq(tag_content, i + 3, Len(tag_content))) # <<>>}

\* A variant of FontOverride that leaves the name untrimmed.
FontOverrideNoStrip(tag_content) ==
    LET hits == OverrideHits(tag_content)
    IN  IF hits = {} THEN NoFont
        ELSE LET i == CHOOSE i \in hits : \A j \in hits : i <= j
             IN  NameRun(SubSeq(tag_content, i + 3, Len(tag_content)))

\* FONT_OVERRIDE_PATTERN.search(tag_content).group(1).strip(), the leftmost
\* match; NoFont when there is no match or the name is blank.
FontOverride(tag_content) ==
    LET hits == OverrideHits(tag_content)
    IN  IF hits = {} THEN NoFont
        ELSE LET i == CHOOSE i \in hits : \A j \in hits : i <= j
             IN  Strip(NameRun(SubSeq(tag_content, i + 3, Len(tag_content))))

(***************************************************************************)
(* ASSParser._add_chars_to_font                                            *)
(***************************************************************************)
KeepChar(c) == IsPrintable(c) \/ c \in {"\n", "\r"}

Normalize(s) ==
    Replace(Replace(Replace(s, <<BS, "N">>, <<>>), <<BS, "n">>, <<>>), <<BS, "h">>, <<" ">>)

Register(usage, fontname) ==
    IF fontname \in DOMAIN usage THEN usage ELSE usage @@ (fontname :> {})

AddCharsToFont(usage, fontname, t) ==
    LET u == Register(usage, fontname)
        filtered == SelectSeq(t, KeepChar)
    IN  [u EXCEPT ![fontname] = @ \cup Range(Normalize(filtered))]

(***************************************************************************)
(* ASSParser._process_dialogue_text                                        *)
(*                                                                         *)
(* A scan state st holds current_font, pos, the usage table and the        *)
(* _add_chars_to_font calls made so far.                                   *)
(***************************************************************************)
\* `if current_font and t: self._add_chars_to_font(current_font, t)` for t = text[lo:hi]
AddRun(st, t, lo, hi) ==
    IF st.font # NoFont /\ Slice(t, lo, hi) # <<>>
    THEN [st EXCEPT !.usage = AddCharsToFont(st.usage, st.font, Slice(t, lo, hi)),
                    !.runs = Append(st.runs, [font |-> st.font, lo |-> lo, hi |-> hi])]
    ELSE st

\* Whether the block at tag enters a drawing that is skipped, and where to.
SkipTarget(t, tag) ==
    LET de == DrawingEnd(Slice(t, tag.end, Len(t)))
    IN  IF DrawingStart(Slice(t, tag.start, tag.end)) /\ de # 0 THEN tag.end + de ELSE 0

\* The font override of a block that is not skipped.
ApplyOverride(st, tag_content) ==
    LET new_font == FontOverride(tag_content)
    IN  IF new_font # NoFont
        THEN [st EXCEPT !.font = new_font, !.usage = Register(st.usage, new_font)]
        ELSE st

\* One iteration of `for tag_match in TAG_PATTERN.finditer(text)`.
TagStep(st, t, tag) ==
    LET st1 == AddRun(st, t, st.pos, tag.start)
        skip == SkipTarget(t, tag)
    IN  IF skip # 0
        THEN [st1 EXCEPT !.pos = skip]
        ELSE [ApplyOverride(st1, Slice(t, tag.start, tag.end)) EXCEPT !.pos = tag.end]

RECURSIVE TagLoop(_, _, _, _)
TagLoop(st, t, tags, k) ==
    IF k > Len(tags) THEN st ELSE TagLoop(TagStep(st, t, tags[k]), t, tags, k + 1)

ProcessDialogueText(usage, t, base) ==
    LET st0 == [font |-> base, pos |-> 0, usage |-> usage, runs |-> <<>>]
        st == TagLoop(st0, t, TagMatches(t), 1)
    IN  AddRun(st, t, st.pos, Len(t))

(***************************************************************************)
(* The scanner alone: _process_dialogue_text called once on a parser whose *)
(* style pass registered the base font.                                    *)
(***************************************************************************)
Segments ==
    { <<"a">>,
      <<"{", BS, "p", "1", "}">>,
      <<"{", BS, "p", "0", "}">>,
      <<"{", BS, "f", "n", "B", "}">>,
      <<"{", BS, "f", "n", " ", "C", "}">>,
      <<"{", BS, "f", "n", " ", "}">>,
      <<"{", BS, "f", "n", "B", BS, "f", "n", "C", "}">>,
      <<"{", BS, "p", "1", BS, "p", "0", BS, "f", "n", "C", "}">> }

Texts == {Flatten(ss) : ss \in UNION {[1..n -> Segments] : n \in 0..MaxSegs}}

ScanInit ==
    /\ pc = "call"
    /\ text \in Texts
    /\ base_font \in {NoFont, <<"A">>}
    /\ font_usage = IF base_font = NoFont THEN <<>> ELSE (base_font :> {})
    /\ usage_before = font_usage
    /\ runs = <<>>
    /\ file = <<>>
    /\ eol = <<>>
    /\ content = <<>>
    /\ styles = <<>>
    /\ todo = <<>>
    /\ done_lines = 0
    /\ EmbedIdle
    /\ EncodeIdle

Scan ==
    /\ pc = "call"
    /\ LET r == ProcessDialogueText(font_usage, text, base_font)
       IN  /\ font_usage' = r.usage
           /\ runs' = r.runs
    /\ usage_before' = font_usage
    /\ pc' = "done"
    /\ UNCHANGED <<file, eol, content, styles, todo, done_lines, text, base_font, embedVars, encodeVars>>

ScanNext == Scan

ScanSpec == ScanInit /\ [][ScanNext]_vars

(***************************************************************************)
(* Properties of the scanner, stated on the text of the call.  tags is     *)
(* the sequence of the text's directive blocks.                            *)
(***************************************************************************)
Blocks == TagMatches(text)

BlockText(tags, k) == Slice(text, tags[k].start, tags[k].end)

\* The literal stretch that follows block k (k = 0: the one before the first block).
GapLo(tags, k) == IF k = 0 THEN 0 ELSE tags[k].end
GapHi(tags, k) == IF k = Len(tags) THEN Len(text) ELSE tags[k + 1].start

\* The names of all font-override sequences of a block, trimmed.
OverrideNames(tag_content) ==
    {Strip(NameRun(SubSeq(tag_content, i + 3, Len(tag_content)))) :
        i \in OverrideHits(tag_content)}

\* The name of the last font-override sequence of a block.
LastOverride(tag_content) ==
    LET hits == OverrideHits(tag_content)
        i == CHOOSE i \in hits : \A j \in hits : i >= j
    IN  Strip(NameRun(SubSeq(tag_content, i + 3, Len(tag_content))))

\* The 0-based offset of the first drawing-exit marker after block k; -1 when none.
ExitAfter(tags, k) == Find(text, <<BS, "p", "0">>, tags[k].end + 1) - 1

Overlaps(r, lo, hi) ==
    (IF r.lo > lo THEN r.lo ELSE lo) < (IF r.hi < hi THEN r.hi ELSE hi)

\* C1: after _process_dialogue_text, for every block holding a drawing-enter
\* marker that a drawing-exit marker follows later in the line, no
\* _add_chars_to_font call covers a character strictly between the block and
\* that exit marker.
C1_DrawingExclusion ==
    pc = "done" =>
        LET tags == Blocks
        IN  \A k \in 1..Len(tags) :
                (DrawingStart(BlockText(tags, k)) /\ ExitAfter(tags, k) >= 0) =>
                    \A i \in 1..Len(runs) :
                        ~Overlaps(runs[i], tags[k].end, ExitAfter(tags, k))

\* The lines C2 is about: no block enters a drawing, no block holds more than
\* one font-override sequence.
C2_Scope(tags) ==
    \A k \in 1..Len(tags) :
        /\ ~DrawingStart(BlockText(tags, k))
        /\ Cardinality(OverrideHits(BlockText(tags, k))) <= 1

\* The font the literal stretch after block k is expected to use: the name of
\* the nearest block before it that holds a non-blank override, else the base font.
C2_FontAt(tags, k) ==
    LET named == {j \in 1..k : OverrideNames(BlockText(tags, j)) \notin {{}, {NoFont}}}
    IN  IF named = {} THEN base_font
        ELSE LET j == CHOOSE j \in named : \A m \in named : j >= m
             IN  CHOOSE n \in OverrideNames(BlockText(tags, j)) : TRUE

C2_Expected(tags) ==
    {[font |-> C2_FontAt(tags, k), lo |-> GapLo(tags, k), hi |-> GapHi(tags, k)] :
        k \in {j \in 0..Len(tags) :
                  GapLo(tags, j) < GapHi(tags, j) /\ C2_FontAt(tags, j) # NoFont}}

\* C2: on a line without drawing markers, the _add_chars_to_font calls are
\* exactly the non-empty literal stretches, each with the name of the nearest
\* preceding non-blank font override (the base font before the first one), and
\* every font's usage set grows by exactly the printable characters of its
\* stretches after normalization.
C2_OverridePrecedence ==
    pc = "done" =>
        LET tags == Blocks
            expected == C2_Expected(tags)
        IN  C2_Scope(tags) =>
                /\ Range(runs) = expected
                /\ \A f \in DOMAIN font_usage :
                      font_usage[f] =
                          (IF f \in DOMAIN usage_before THEN usage_before[f] ELSE {})
                          \cup UNION {Range(Normalize(SelectSeq(Slice(text, r.lo, r.hi),
                                                                IsPrintable))) :
                                         r \in {x \in expected : x.font = f}}

\* C2's case: two overrides to different fonts, each followed by text, and a
\* base font that receives nothing.
C2_Witness ==
    /\ pc = "done"
    /\ C2_Scope(Blocks)
    /\ base_font = <<"A">>
    /\ font_usage = (<<"A">> :> {} @@ <<"B">> :> {"a"} @@ <<"C">> :> {"a"})
    /\ Len(runs) = 2

\* C3: on a line without drawing-enter markers, the literal text after a block
\* holding several font-override sequences is attributed to the name of the
\* last of them.
C3_LastOverrideWins ==
    pc = "done" =>
        LET tags == Blocks
        IN  (\A k \in 1..Len(tags) : ~DrawingStart(BlockText(tags, k))) =>
                \A k \in 1..Len(tags) :
                    ( /\ Cardinality(OverrideHits(BlockText(tags, k))) >= 2
                      /\ LastOverride(BlockText(tags, k)) # NoFont
                      /\ GapLo(tags, k) < GapHi(tags, k) ) =>
                        \E i \in 1..Len(runs) :
                            runs[i] = [font |-> LastOverride(BlockText(tags, k)),
                                       lo |-> GapLo(tags, k), hi |-> GapHi(tags, k)]

\* C5: when a block holds a drawing-enter marker and no drawing-exit marker
\* occurs later in the line, no _add_chars_to_font call covers a character
\* after that block, and no font is registered beyond those known before the
\* call and those named by overrides in earlier blocks.
C5_UnterminatedDrawing ==
    pc = "done" =>
        LET tags == Blocks
        IN  \A k \in 1..Len(tags) :
                (DrawingStart(BlockText(tags, k)) /\ ExitAfter(tags, k) < 0) =>
                    /\ \A i \in 1..Len(runs) : runs[i].hi <= tags[k].start
                    /\ DOMAIN font_usage \subseteq
                           DOMAIN usage_before
                           \cup UNION {OverrideNames(BlockText(tags, j)) : j \in 1..(k - 1)}

\* C7: a block that holds both a drawing-enter and a drawing-exit marker, with
\* no drawing-enter marker in any earlier block, skips nothing: the literal
\* text right after it is attributed, and to the block's font override when
\* it has one.
C7_EnterExitInOneBlock ==
    pc = "done" =>
        LET tags == Blocks
        IN  \A k \in 1..Len(tags) :
                ( /\ DrawingStart(BlockText(tags, k))
                  /\ Find(BlockText(tags, k), <<BS, "p", "0">>, 1) # 0
                  /\ \A j \in 1..(k - 1) : ~DrawingStart(BlockText(tags, j))
                  /\ OverrideNames(BlockText(tags, k)) \notin {{}, {NoFont}}
                  /\ GapLo(tags, k) < GapHi(tags, k) ) =>
                    \E i \in 1..Len(runs) :
                        /\ runs[i].lo = GapLo(tags, k)
                        /\ runs[i].hi = GapHi(tags, k)
                        /\ runs[i].font \in OverrideNames(BlockText(tags, k))

(***************************************************************************)
(* ASSParser.parse on a file.                                              *)
(*                                                                         *)
(* The file on disk is a sequence of Style and Dialogue records in the     *)
(* layout the patterns' comments give; Render writes it out with the       *)
(* file's line terminator, and the parser works on the characters.         *)
(***************************************************************************)
Str_Style == <<"S", "t", "y", "l", "e", ":">>
Str_Dialogue == <<"D", "i", "a", "l", "o", "g", "u", "e", ":">>

StyleRec(name, font, size) == [kind |-> "Style", name |-> name, font |-> font, size |-> size]
DialogueRec(style, effect, t) == [kind |-> "Dialogue", style |-> style, effect |-> effect, text |-> t]

\* Style: Name,Fontname,Fontsize,PrimaryColour,...
\* Dialogue: Layer,Start,End,Style,Name,MarginL,MarginR,MarginV,Effect,Text
RenderLine(r) ==
    IF r.kind = "Style"
    THEN Str_Style \o <<" ">> \o r.name \o <<",">> \o r.font \o <<",">> \o r.size \o <<",", "0">>
    ELSE Str_Dialogue \o <<" ", "0", ",", "0", ",", "0", ",">> \o r.style
         \o <<",", ",", "0", ",", "0", ",", "0", ",">> \o r.effect \o <<",">> \o r.text

RECURSIVE Render(_, _)
Render(f, nl) == IF f = <<>> THEN <<>> ELSE RenderLine(Head(f)) \o nl \o Render(Tail(f), nl)

\* Path.read_text: text mode with universal newlines.
ReadText(raw) == Replace(Replace(raw, <<"\r", "\n">>, <<"\n">>), <<"\r">>, <<"\n">>)

\* The 1-based index of the next comma at or after from; Len(s) + 1 when none.
NextComma(s, from) ==
    LET i == Find(s, <<",">>, from) IN IF i = 0 THEN Len(s) + 1 ELSE i

\* ^ under re.MULTILINE
LineStart(s, i) == i = 1 \/ s[i - 1] = "\n"

\* The least line start >= from where the word begins; 0 when none.
NextRecord(s, word, from) ==
    LET hits == {i \in from..Len(s) : LineStart(s, i) /\ StartsAt(s, i, word)}
    IN  IF hits = {} THEN 0 ELSE CHOOSE i \in hits : \A j \in hits : i <= j

\* STYLE_PATTERN at line start i: ^Style:\s*([^,]+),([^,]+),([^,]+)
\* The three groups are the stretches between commas (a comma-free stretch
\* may hold line breaks); the third runs to the next comma or the end.
StyleMatchAt(s, i) ==
    LET a == i + 6
        c1 == NextComma(s, a)
        c2 == NextComma(s, c1 + 1)
        c3 == NextComma(s, c2 + 1)
    IN  IF c1 > a /\ c1 <= Len(s) /\ c2 > c1 + 1 /\ c2 <= Len(s) /\ c3 > c2 + 1
        THEN [ok |-> TRUE, g1 |-> SubSeq(s, a, c1 - 1), g2 |-> SubSeq(s, c1 + 1, c2 - 1),
              g3 |-> SubSeq(s, c2 + 1, c3 - 1), end |-> c3 - 1]
        ELSE [ok |-> FALSE]

\* STYLE_PATTERN.finditer(content)
RECURSIVE StyleMatchesFrom(_, _)
StyleMatchesFrom(s, from) ==
    LET i == NextRecord(s, Str_Style, from)
    IN  IF i = 0 THEN <<>>
        ELSE LET m == StyleMatchAt(s, i)
             IN  IF m.ok THEN <<m>> \o StyleMatchesFrom(s, m.end + 1)
                 ELSE StyleMatchesFrom(s, i + 1)

\* The end of the line that holds index i: the index before the next "\n".
LineEnd(s, i) ==
    LET n == Find(s, <<"\n">>, i) IN IF n = 0 THEN Len(s) ELSE n - 1

\* DIALOGUE_PATTERN at line start i:
\* ^Dialogue:\s*[^,]*,[^,]*,[^,]*,([^,]*),(?:[^,]*,){4}(.*)$
DialogueMatchAt(s, i) ==
    LET a == i + 9
        c1 == NextComma(s, a)
        c2 == NextComma(s, c1 + 1)
        c3 == NextComma(s, c2 + 1)
        c4 == NextComma(s, c3 + 1)
        c5 == NextComma(s, c4 + 1)
        c6 == NextComma(s, c5 + 1)
        c7 == NextComma(s, c6 + 1)
        c8 == NextComma(s, c7 + 1)
    IN  IF c8 <= Len(s)
        THEN [ok |-> TRUE, g1 |-> SubSeq(s, c3 + 1, c4 - 1),
              g2 |-> SubSeq(s, c8 + 1, LineEnd(s, c8 + 1)), end |-> LineEnd(s, c8 + 1)]
        ELSE [ok |-> FALSE]

\* DIALOGUE_PATTERN.finditer(content)
RECURSIVE DialogueMatchesFrom(_, _)
DialogueMatchesFrom(s, from) ==
    LET i == NextRecord(s, Str_Dialogue, from)
    IN  IF i = 0 THEN <<>>
        ELSE LET m == DialogueMatchAt(s, i)
             IN  IF m.ok THEN <<m>> \o DialogueMatchesFrom(s, m.end + 1)
                 ELSE DialogueMatchesFrom(s, i + 1)

\* Whether float(s) returns, for s over digits, ".", a sign and other characters.
IsFloat(s) ==
    LET t == Strip(s)
        u == IF t # <<>> /\ Head(t) \in {"+", "-"} THEN Tail(t) ELSE t
        digits == {"0", "1", "2", "3", "4", "5", "6", "7", "8", "9"}
    IN  /\ \A k \in 1..Len(u) : u[k] \in digits \cup {"."}
        /\ \E k \in 1..Len(u) : u[k] \in digits
        /\ Cardinality({k \in 1..Len(u) : u[k] = "."}) <= 1

\* _parse_styles: the loop over the matches; it stops where float() raises.
RECURSIVE ParseStylesLoop(_, _)
ParseStylesLoop(st, ms) ==
    IF ms = <<>> THEN st
    ELSE LET name == Strip(Head(ms).g1)
             fontname == Strip(Head(ms).g2)
         IN  IF ~IsFloat(Head(ms).g3)
             THEN [st EXCEPT !.raised = TRUE]
             ELSE ParseStylesLoop(
                      [st EXCEPT !.styles = (name :> fontname) @@ @,
                                 !.usage = Register(@, fontname)],
                      Tail(ms))

(***************************************************************************)
(* The files of the model.                                                 *)
(***************************************************************************)
MaxLines == 3

FileTexts ==
    { <<"a">>,
      <<BS, "N", "b", BS, "h">>,
      <<"c", "\t">>,
      <<"{", BS, "p", "1", "}", "{", BS, "f", "n", "C", "}", "m", "{", BS, "p", "0", "}">>,
      <<"{", BS, "f", "n", "C", "}">> }

LineRecs ==
    { StyleRec(<<"S">>, <<"A">>, <<"2", "0">>),
      StyleRec(<<"S">>, <<"B">>, <<"1", ".", "5">>),
      StyleRec(<<"T">>, <<"B">>, <<"x">>) }
    \cup {DialogueRec(s, <<>>, t) : s \in {<<"S">>, <<"U">>}, t \in FileTexts}
    \cup {DialogueRec(<<"S">>, <<"f", "x">>, <<"a">>)}

Files == UNION {[1..n -> LineRecs] : n \in 0..MaxLines}

Eols == {<<"\n">>, <<"\r", "\n">>}

\* ASSParser(filepath): empty tables.
Init ==
    /\ pc = "new"
    /\ file \in Files
    /\ eol \in Eols
    /\ content = <<>>
    /\ styles = <<>>
    /\ font_usage = <<>>
    /\ todo = <<>>
    /\ done_lines = 0
    /\ text = <<>>
    /\ base_font = NoFont
    /\ usage_before = <<>>
    /\ runs = <<>>
    /\ EmbedIdle
    /\ EncodeIdle

\* parse(): content = self.filepath.read_text(encoding="utf-8-sig")
ReadFile ==
    /\ pc = "new"
    /\ content' = ReadText(Render(file, eol))
    /\ pc' = "styles"
    /\ UNCHANGED <<file, eol, styles, font_usage, todo, done_lines,
                   text, base_font, usage_before, runs, embedVars, encodeVars>>

\* parse(): self._parse_styles(content); the ValueError of float() leaves parse().
ParseStyles ==
    /\ pc = "styles"
    /\ LET st == ParseStylesLoop([styles |-> styles, usage |-> font_usage, raised |-> FALSE],
                                 StyleMatchesFrom(content, 1))
       IN  /\ styles' = st.styles
           /\ font_usage' = st.usage
           /\ pc' = IF st.raised THEN "raised" ELSE "dialogues"
           /\ todo' = IF st.raised THEN <<>> ELSE DialogueMatchesFrom(content, 1)
    /\ UNCHANGED <<file, eol, content, done_lines, text, base_font, usage_before, runs, embedVars, encodeVars>>

\* _parse_dialogues: one iteration of the loop over the matches.
ParseDialogue ==
    /\ pc = "dialogues"
    /\ todo # <<>>
    /\ LET style_name == Strip(Head(todo).g1)
           base == IF style_name \in DOMAIN styles THEN styles[style_name] ELSE NoFont
           r == ProcessDialogueText(font_usage, Head(todo).g2, base)
       IN  /\ text' = Head(todo).g2
           /\ base_font' = base
           /\ font_usage' = r.usage
           /\ runs' = r.runs
    /\ usage_before' = font_usage
    /\ todo' = Tail(todo)
    /\ done_lines' = done_lines + 1
    /\ UNCHANGED <<pc, file, eol, content, styles, embedVars, encodeVars>>

\* parse(): return self.font_usage
Return ==
    /\ pc = "dialogues"
    /\ todo = <<>>
    /\ pc' = "done"
    /\ UNCHANGED <<file, eol, content, styles, font_usage, todo, done_lines,
                   text, base_font, usage_before, runs, embedVars, encodeVars>>

Next == ReadFile \/ ParseStyles \/ ParseDialogue \/ Return

Spec == Init /\ [][Next]_vars

(***************************************************************************)
(* Properties of parse(), stated on the records of the file.               *)
(***************************************************************************)
DialogueRecsOf(f) == SelectSeq(f, LAMBDA r : r.kind = "Dialogue")

\* C4: parse() never leaves with an exception of the style pass, and once the
\* style pass is over every Style record of the file whose size is a number
\* has its name in the style table.
C4_StylePassNeverRaises ==
    /\ pc # "raised"
    /\ pc \in {"dialogues", "done"} =>
           \A i \in 1..Len(file) :
               (file[i].kind = "Style" /\ IsFloat(file[i].size)) =>
                   Strip(file[i].name) \in DOMAIN styles

\* The override names of the blocks of t that do not lie between a
\* drawing-enter block and the exit marker that follows it.
C6_ReachedOverrides(t) ==
    LET tags == TagMatches(t)
        cont(k) == Slice(t, tags[k].start, tags[k].end)
        exit(j) == Find(t, <<BS, "p", "0">>, tags[j].end + 1)
        inside(k) == \E j \in 1..(k - 1) :
                         DrawingStart(cont(j)) /\ exit(j) # 0 /\ tags[k].start < exit(j)
    IN  UNION {OverrideNames(cont(k)) : k \in {j \in 1..Len(tags) : ~inside(j)}}

\* C6: when parse() returns, every key of the mapping is the font of a style
\* that a Dialogue record names, or the name of a font override in a block
\* outside the skipped drawings of some Dialogue record.
C6_ResultKeys ==
    pc = "done" =>
        LET ds == DialogueRecsOf(file)
            referenced == {styles[Strip(ds[i].style)] :
                              i \in {j \in 1..Len(ds) : Strip(ds[j].style) \in DOMAIN styles}}
            reached == UNION {C6_ReachedOverrides(ds[i].text) : i \in 1..Len(ds)}
        IN  DOMAIN font_usage \subseteq referenced \cup reached

\* C8: after a Dialogue record whose style resolves to a base font and whose
\* Text field holds no directive block was processed, the base font's usage
\* set has grown by exactly the printable characters of the Text field after
\* normalization, and no other font's set has changed.
C8_PlainLine ==
    (pc \in {"dialogues", "done"} /\ done_lines >= 1) =>
        LET rec == DialogueRecsOf(file)[done_lines]
            name == Strip(rec.style)
            expected == Range(Normalize(SelectSeq(rec.text, IsPrintable)))
        IN  (TagMatches(rec.text) = <<>> /\ name \in DOMAIN styles /\ styles[name] # NoFont) =>
                /\ DOMAIN font_usage = DOMAIN usage_before
                /\ \A f \in DOMAIN font_usage :
                      font_usage[f] =
                          usage_before[f] \cup (IF f = styles[name] THEN expected ELSE {})

(***************************************************************************)
(* The writer, fusionn_font/ass_writer.py.                                 *)
(*                                                                         *)
(* The writer's texts are sequences of character codes, so that the        *)
(* encoder's arithmetic on codes is what it is in the code.  Bytes are     *)
(* integers in 0..255.                                                     *)
(***************************************************************************)
\* ord(c) for the characters the model's texts are written with.
Ord(c) ==
    CASE c = "\n" -> 10 [] c = "\r" -> 13 [] c = " " -> 32 [] c = ":" -> 58
      [] c = "D" -> 68  [] c = "E" -> 69  [] c = "F" -> 70  [] c = "N" -> 78
      [] c = "O" -> 79  [] c = "S" -> 83  [] c = "T" -> 84
      [] c = "[" -> 91  [] c = "]" -> 93
      [] c = "a" -> 97  [] c = "d" -> 100 [] c = "e" -> 101 [] c = "f" -> 102
      [] c = "g" -> 103 [] c = "l" -> 108 [] c = "m" -> 109 [] c = "n" -> 110
      [] c = "o" -> 111 [] c = "s" -> 115 [] c = "t" -> 116 [] c = "x" -> 120
      [] c = "y" -> 121

Codes(s) == [i \in DOMAIN s |-> Ord(s[i])]

NL == Codes(<<"\n">>)

\* The number of encoded characters on a line: encoded[i:i+80].
LineWidth == 80

\* The least integer >= a / b.
Ceil(a, b) == (a + b - 1) \div b

\* data[i] of the chunk padded with zero bytes.
ByteAt(bytes, i) == IF i <= Len(bytes) THEN bytes[i] ELSE 0

\* The k-th encoded character, before wrapping: the (k-1)%4-th six-bit value
\* of the group of three bytes it belongs to, offset by 33.
EncodedChar(bytes, k) ==
    LET g == (k - 1) \div 4
        b1 == ByteAt(bytes, 3 * g + 1)
        b2 == ByteAt(bytes, 3 * g + 2)
        b3 == ByteAt(bytes, 3 * g + 3)
        j == (k - 1) % 4
        c == CASE j = 0 -> b1 \div 4
               [] j = 1 -> ((b1 % 4) * 16) + (b2 \div 16)
               [] j = 2 -> ((b2 % 16) * 4) + (b3 \div 64)
               [] j = 3 -> b3 % 64
    IN  c + 33

\* An encoder that drops a last chunk of fewer than three bytes instead of
\* padding it.
EncodedNoPad(bytes) == [k \in 1..(4 * (Len(bytes) \div 3)) |-> EncodedChar(bytes, k)]

\* ''.join(result)
Encoded(bytes) == [k \in 1..(4 * Ceil(Len(bytes), 3)) |-> EncodedChar(bytes, k)]

\* sep.join(lines)
RECURSIVE Join(_, _)
Join(lines, sep) ==
    IF lines = <<>> THEN <<>>
    ELSE IF Len(lines) = 1 THEN lines[1]
    ELSE lines[1] \o sep \o Join(Tail(lines), sep)

\* A wrapping that cuts the lines one encoded group later.
WrapLinesWide(chars) ==
    [k \in 1..Ceil(Len(chars), LineWidth + 4) |->
        Slice(chars, (LineWidth + 4) * (k - 1), (LineWidth + 4) * k)]

\* [encoded[i:i+80] for i in range(0, len(encoded), 80)]
WrapLines(chars) ==
    [k \in 1..Ceil(Len(chars), LineWidth) |->
        Slice(chars, LineWidth * (k - 1), LineWidth * k)]

\* ass_uuencode(data)
AssUuencode(bytes) == Join(WrapLines(Encoded(bytes)), NL)

\* The three lines create_font_section appends for each font.
RECURSIVE FontEntries(_)
FontEntries(fs) ==
    IF fs = <<>> THEN <<>>
    ELSE << Codes(<<"f", "o", "n", "t", "n", "a", "m", "e", ":", " ">>) \o Head(fs).name,
            AssUuencode(Head(fs).data),
            <<>> >> \o FontEntries(Tail(fs))

\* create_font_section(fonts)
CreateFontSection(fs) ==
    IF fs = <<>> THEN <<>>
    ELSE Join(<< <<>>, Codes(<<"[", "F", "o", "n", "t", "s", "]">>) >> \o FontEntries(fs), NL)

\* re.IGNORECASE on the model's characters.
Lower(s) == [i \in DOMAIN s |-> IF s[i] >= 65 /\ s[i] <= 90 THEN s[i] + 32 ELSE s[i]]

\* Where the lookahead (?=\n\[|\Z) first holds at or after index from.
SectionEnd(s, from) ==
    LET i == Find(s, Codes(<<"\n", "[">>), from) IN IF i = 0 THEN Len(s) + 1 ELSE i

\* re.sub(r'\n?\[Fonts\].*?(?=\n\[|\Z)', '', content, flags=re.DOTALL | re.IGNORECASE)
RECURSIVE RemoveFontsSection(_)
RemoveFontsSection(s) ==
    LET i == Find(Lower(s), Codes(<<"[", "f", "o", "n", "t", "s", "]">>), 1)
        start == IF i > 1 /\ s[i - 1] = 10 THEN i - 1 ELSE i
        end == SectionEnd(s, i + 7)
    IN  IF i = 0 THEN s
        ELSE SubSeq(s, 1, start - 1) \o RemoveFontsSection(SubSeq(s, end, Len(s)))

\* ass_path.read_text(encoding='utf-8-sig'): universal newlines.
ReadCodes(raw) == Replace(Replace(raw, Codes(<<"\r", "\n">>), NL), Codes(<<"\r">>), NL)

\* `if not content.endswith('\n'): content += '\n'`
EnsureNewline(s) == IF s # <<>> /\ s[Len(s)] = 10 THEN s ELSE s \o NL

\* embed_fonts_in_ass: the content the section is appended to, and the output.
EmbedFontsInAss(raw, fs) ==
    LET h == EnsureNewline(RemoveFontsSection(ReadCodes(raw)))
    IN  [host |-> h, final |-> h \o CreateFontSection(fs)]

(***************************************************************************)
(* The writer's inputs.                                                    *)
(***************************************************************************)
MaxTail == 2

\* Byte values: 0 encodes to "!", 232 in the first byte of a group to "[".
ByteVals == {0, 232}

\* Font data: nothing or one full encoded line of zero bytes, then a tail.
Datas ==
    {[i \in 1..n |-> 0] \o tail :
        n \in {0, 3 * (LineWidth \div 4)},
        tail \in UNION {[1..m -> ByteVals] : m \in 0..MaxTail}}

FontArgs ==
    {<<>>}
    \cup {<<[name |-> Codes(<<"f">>), data |-> d]>> : d \in Datas}
    \cup {<<[name |-> Codes(<<"f">>), data |-> d], [name |-> Codes(<<"g">>), data |-> <<0>>]>> :
             d \in Datas}

HostFiles ==
    { Codes(<<"[", "E", "]", "\n", "D", ":", " ", "x", "\n">>),
      Codes(<<"[", "E", "]", "\n", "D", ":", " ", "x">>),
      Codes(<<"[", "E", "]", "\r", "\n", "D", ":", " ", "x", "\r", "\n">>),
      Codes(<<"[", "E", "]", "\n", "D", ":", " ", "[", "f", "o", "n", "t", "s", "]", " ", "x", "\n",
              "D", ":", " ", "y", "\n">>),
      Codes(<<"[", "F", "O", "N", "T", "S", "]", "\n", "o", "l", "d", "\n",
              "[", "E", "]", "\n", "D", ":", " ", "x", "\n">>),
      Codes(<<"[", "E", "]", "\n", "D", ":", " ", "x", "\n", "\n">>) }

EmbedInit ==
    /\ pc = "host"
    /\ ass_file \in HostFiles
    /\ prev_file = <<>>
    /\ fonts = <<>>
    /\ prev_fonts = <<>>
    /\ host = <<>>
    /\ EncodeIdle
    /\ file = <<>>
    /\ eol = <<>>
    /\ content = <<>>
    /\ styles = <<>>
    /\ font_usage = <<>>
    /\ todo = <<>>
    /\ done_lines = 0
    /\ text = <<>>
    /\ base_font = NoFont
    /\ usage_before = <<>>
    /\ runs = <<>>

\* embed_fonts_in_ass(ass_file, fonts, ass_file): first into the host file,
\* then into its own output.
Embed ==
    /\ pc \in {"host", "embedded"}
    /\ \E fs \in FontArgs :
          LET r == EmbedFontsInAss(ass_file, fs)
          IN  /\ ass_file' = r.final
              /\ host' = r.host
              /\ fonts' = fs
    /\ prev_file' = ass_file
    /\ prev_fonts' = fonts
    /\ pc' = IF pc = "host" THEN "embedded" ELSE "embedded again"
    /\ UNCHANGED <<file, eol, content, styles, font_usage, todo, done_lines,
                   text, base_font, usage_before, runs, encodeVars>>

EmbedNext == Embed

EmbedSpec == EmbedInit /\ [][EmbedNext]_vars

(***************************************************************************)
(* ass_uuencode on its own, and the size get_embedded_fonts_info estimates *)
(* from the text it returned.                                              *)
(***************************************************************************)
\* The codes re's \s matches in a str pattern, among the codes below 128.
SpaceCodes == {9, 10, 11, 12, 13, 28, 29, 30, 31, 32}

\* len(re.sub(r'\s', '', data_section))
DataChars(data_section) == Len(SelectSeq(data_section, LAMBDA c : c \notin SpaceCodes))

\* estimated_size = (data_chars * 3) // 4
EstimatedSize(data_section) == (DataChars(data_section) * 3) \div 4

\* Byte values: all bits clear, all bits set, and the top and bottom bits set.
EncodeBytes == {0, 129, 255}

\* The bytes of one full encoded line.
FullLine == 3 * (LineWidth \div 4)

\* Byte sequences: nothing, one line less a group, one line or two lines of
\* one byte value, then a tail.
EncodeDatas ==
    {[i \in 1..n |-> b] \o tail :
        n \in {0, FullLine - 3, FullLine, 2 * FullLine},
        b \in EncodeBytes,
        tail \in UNION {[1..m -> EncodeBytes] : m \in 0..MaxTail}}

EncodeInit ==
    /\ pc = "data"
    /\ data \in EncodeDatas
    /\ encoded = <<>>
    /\ estimate = 0
    /\ EmbedIdle
    /\ file = <<>>
    /\ eol = <<>>
    /\ content = <<>>
    /\ styles = <<>>
    /\ font_usage = <<>>
    /\ todo = <<>>
    /\ done_lines = 0
    /\ text = <<>>
    /\ base_font = NoFont
    /\ usage_before = <<>>
    /\ runs = <<>>

\* encoded = ass_uuencode(data)
Encode ==
    /\ pc = "data"
    /\ encoded' = AssUuencode(data)
    /\ pc' = "encoded"
    /\ UNCHANGED <<data, estimate, file, eol, content, styles, font_usage, todo,
                   done_lines, text, base_font, usage_before, runs, embedVars>>

\* The size get_embedded_fonts_info estimates for a data section that holds
\* the encoded text.
Estimate ==
    /\ pc = "encoded"
    /\ estimate' = EstimatedSize(encoded)
    /\ pc' = "estimated"
    /\ UNCHANGED <<data, encoded, file, eol, content, styles, font_usage, todo,
                   done_lines, text, base_font, usage_before, runs, embedVars>>

EncodeNext == Encode \/ Estimate

EncodeSpec == EncodeInit /\ [][EncodeNext]_vars

(***************************************************************************)
(* Properties of embed_fonts_in_ass.                                       *)
(***************************************************************************)
\* The lines of s, split at "\n" (a final "\n" ends the last line).
RECURSIVE SplitLines(_)
SplitLines(s) ==
    LET i == Find(s, NL, 1)
    IN  IF i = 0 THEN (IF s = <<>> THEN <<>> ELSE <<s>>)
        ELSE <<SubSeq(s, 1, i - 1)>> \o SplitLines(SubSeq(s, i + 1, Len(s)))

NonBlank(ls) == SelectSeq(ls, LAMBDA l : l # <<>>)

IsFontsHeader(l) == StartsAt(Lower(l), 1, Codes(<<"[", "f", "o", "n", "t", "s", "]">>))

\* The lines outside [Fonts] sections: a section is a line that starts with
\* [Fonts] and the lines after it up to the next line that starts with "[".
RECURSIVE LinesOutsideFonts(_, _)
LinesOutsideFonts(ls, inside) ==
    IF ls = <<>> THEN <<>>
    ELSE IF IsFontsHeader(Head(ls)) THEN LinesOutsideFonts(Tail(ls), TRUE)
    ELSE IF inside /\ ~StartsAt(Head(ls), 1, Codes(<<"[">>))
         THEN LinesOutsideFonts(Tail(ls), TRUE)
    ELSE <<Head(ls)>> \o LinesOutsideFonts(Tail(ls), FALSE)

\* Whether a is b with some elements left out.
RECURSIVE IsSubseq(_, _)
IsSubseq(a, b) ==
    IF a = <<>> THEN TRUE
    ELSE IF b = <<>> THEN FALSE
    ELSE IF Head(a) = Head(b) THEN IsSubseq(Tail(a), Tail(b))
    ELSE IsSubseq(a, Tail(b))

\* C9: after embedding fonts into a file that this writer produced with
\* fonts, the output holds exactly one line that starts with [Fonts], the part
\* of the output before the new section holds none of the name lines and
\* encoded lines of the section it replaced, and embedding the same fonts
\* again leaves the file as it was.
C9_ReplacesPriorSection ==
    (pc = "embedded again" /\ prev_fonts # <<>> /\ fonts # <<>>) =>
        LET lines == SplitLines(ass_file)
            before == SubSeq(ass_file, 1, Len(ass_file) - Len(CreateFontSection(fonts)))
            prior == Range(NonBlank(FontEntries(prev_fonts)))
        IN  /\ Cardinality({i \in 1..Len(lines) : IsFontsHeader(lines[i])}) = 1
            /\ \A l \in Range(SplitLines(before)) :
                   \A e \in prior : ~IsSubseq(<<l>>, SplitLines(e))
            /\ fonts = prev_fonts => ass_file = prev_file

\* C10: the lines of the input outside its [Fonts] sections, blank lines
\* aside, are lines of the output, unchanged and in the same order.
C10_RestUnchanged ==
    pc # "host" =>
        IsSubseq(NonBlank(LinesOutsideFonts(SplitLines(ReadCodes(prev_file)), FALSE)),
                 SplitLines(ass_file))

\* C11: whatever the input file, the content the new fonts section is
\* appended to ends with exactly one newline: its last character is a
\* newline and the character before it, if any, is not.
C11_OneTrailingNewline ==
    pc # "host" =>
        /\ host # <<>>
        /\ host[Len(host)] = 10
        /\ Len(host) >= 2 => host[Len(host) - 1] # 10

(***************************************************************************)
(* Properties of ass_uuencode.                                             *)
(***************************************************************************)
\* C12: for a byte sequence of length n, the size estimated from the
\* non-whitespace characters of its encoded text is n when n is a multiple of
\* 3, and n + 1 or n + 2 otherwise.
C12_SizeEstimate ==
    pc = "estimated" =>
        LET n == Len(data)
        IN  /\ estimate = (DataChars(AssUuencode(data)) * 3) \div 4
            /\ IF n % 3 = 0 THEN estimate = n ELSE estimate \in {n + 1, n + 2}

\* A sequence of more than one line whose length is not a multiple of 3 had
\* its size estimated.
C12_Witness ==
    /\ pc = "estimated"
    /\ Len(data) > FullLine
    /\ Len(data) % 3 # 0
    /\ estimate > Len(data)

\* C13: every line of the encoded text but the last has exactly 80
\* characters, the last has between 1 and 80, the text of no bytes is empty,
\* and every character other than the newlines between lines has a code
\* from 33 to 96.
C13_LineWrapping ==
    pc # "data" =>
        LET lines == SplitLines(encoded)
            last == Len(lines)
        IN  /\ encoded = Join(lines, NL)
            /\ \A i \in 1..(last - 1) : Len(lines[i]) = 80
            /\ last > 0 => Len(lines[last]) \in 1..80
            /\ data = <<>> => encoded = <<>>
            /\ data # <<>> => encoded # <<>>
            /\ \A l \in Range(lines) : \A c \in Range(l) : c >= 33 /\ c <= 96

\* A text of three lines, the last of them short, with a character of code 96.
C13_Witness ==
    /\ pc = "encoded"
    /\ Len(SplitLines(encoded)) = 3
    /\ Len(encoded) < 3 * 80
    /\ 96 \in Range(encoded)

====
